---- MODULE Spec2Model ----
(***************************************************************************)
(* Model of the MicroPython TAS2505 driver (tas2505.py): the register      *)
(* descriptor table, the page selector, the register accessor, the script  *)
(* engine config() and the default script, run against a paged register    *)
(* device behind the I2C bus.  Every bus transaction and every sleep is    *)
(* one step, so that failures and ordering are observable.                 *)
(***************************************************************************)
EXTENDS Integers, Sequences, FiniteSets, TLC

\* ------------------------------------------------------------------ bounds
\* number of driver calls the application makes in one behaviour
MaxCalls == 2
\* longest caller-supplied script handed to config()
MaxScriptLen == 2
\* how far outside 0..15 the volume levels handed to the volume setter go
LevelMargin == 1
\* page selections another bus actor makes per driver call
MaxExternal == 1

\* --------------------------------------------------------- module constants
PAGE0 == 0
PAGE1 == 1
PAGE_SELECT == 0

\* special token used in a script to specify a time delay
DELAY_MS == -999

\* Python objects that appear as the first element of a script action: an int
\* or a Reg namedtuple.  Python's == between the two kinds is False.
PyInt(n) == [type |-> "int", val |-> n]

register(num, page) == [type |-> "Reg", num |-> num, page |-> page]

\* page 0 configuration registers
SOFTWARE_RESET == register(1, PAGE0)
CLOCK_SETTING_1 == register(4, PAGE0)
CLOCK_SETTING_2 == register(5, PAGE0)
CLOCK_SETTING_3 == register(6, PAGE0)
CLOCK_SETTING_4 == register(7, PAGE0)
CLOCK_SETTING_5 == register(8, PAGE0)
CLOCK_SETTING_6 == register(11, PAGE0)
CLOCK_SETTING_7 == register(12, PAGE0)
DAC_OSR_SETTING_1 == register(13, PAGE0)
DAC_OSR_SETTING_2 == register(14, PAGE0)
AUDIO_INTERFACE_SETTING_1 == register(27, PAGE0)
DAC_INSTRUCTION_SET == register(60, PAGE0)
DAC_CHANNEL_SETUP_1 == register(63, PAGE0)
DAC_CHANNEL_SETUP_2 == register(64, PAGE0)
DAC_CHANNEL_DIGITAL_VOLUME_CONTROL == register(65, PAGE0)

\* page 1 configuration registers
REF_POR_LDO_BGAP_CONTROL == register(1, PAGE1)
\* variant: LDO_CONTROL declared with the address of REF_POR_LDO_BGAP_CONTROL
LDO_CONTROL_dup == register(1, PAGE1)

LDO_CONTROL == register(2, PAGE1)
\* variant: a descriptor whose address is the page-select address
COMMON_MODE_CONTROL_at_page_select == register(PAGE_SELECT, PAGE1)
COMMON_MODE_CONTROL == register(10, PAGE1)
SPEAKER_AMPLIFIER_CONTROL_1 == register(45, PAGE1)
SPEAKER_VOLUME_CONTROL_1 == register(46, PAGE1)
SPEAKER_AMPLIFIER_VOLUME_CONTROL_2 == register(48, PAGE1)

\* the named registers of class TAS2505, by name
RegNames ==
  { "SOFTWARE_RESET", "CLOCK_SETTING_1", "CLOCK_SETTING_2", "CLOCK_SETTING_3",
    "CLOCK_SETTING_4", "CLOCK_SETTING_5", "CLOCK_SETTING_6", "CLOCK_SETTING_7",
    "DAC_OSR_SETTING_1", "DAC_OSR_SETTING_2", "AUDIO_INTERFACE_SETTING_1",
    "DAC_INSTRUCTION_SET", "DAC_CHANNEL_SETUP_1", "DAC_CHANNEL_SETUP_2",
    "DAC_CHANNEL_DIGITAL_VOLUME_CONTROL", "REF_POR_LDO_BGAP_CONTROL",
    "LDO_CONTROL", "COMMON_MODE_CONTROL", "SPEAKER_AMPLIFIER_CONTROL_1",
    "SPEAKER_VOLUME_CONTROL_1", "SPEAKER_AMPLIFIER_VOLUME_CONTROL_2" }

RegTable ==
  [ n \in RegNames |->
      CASE n = "SOFTWARE_RESET" -> SOFTWARE_RESET
        [] n = "CLOCK_SETTING_1" -> CLOCK_SETTING_1
        [] n = "CLOCK_SETTING_2" -> CLOCK_SETTING_2
        [] n = "CLOCK_SETTING_3" -> CLOCK_SETTING_3
        [] n = "CLOCK_SETTING_4" -> CLOCK_SETTING_4
        [] n = "CLOCK_SETTING_5" -> CLOCK_SETTING_5
        [] n = "CLOCK_SETTING_6" -> CLOCK_SETTING_6
        [] n = "CLOCK_SETTING_7" -> CLOCK_SETTING_7
        [] n = "DAC_OSR_SETTING_1" -> DAC_OSR_SETTING_1
        [] n = "DAC_OSR_SETTING_2" -> DAC_OSR_SETTING_2
        [] n = "AUDIO_INTERFACE_SETTING_1" -> AUDIO_INTERFACE_SETTING_1
        [] n = "DAC_INSTRUCTION_SET" -> DAC_INSTRUCTION_SET
        [] n = "DAC_CHANNEL_SETUP_1" -> DAC_CHANNEL_SETUP_1
        [] n = "DAC_CHANNEL_SETUP_2" -> DAC_CHANNEL_SETUP_2
        [] n = "DAC_CHANNEL_DIGITAL_VOLUME_CONTROL" -> DAC_CHANNEL_DIGITAL_VOLUME_CONTROL
        [] n = "REF_POR_LDO_BGAP_CONTROL" -> REF_POR_LDO_BGAP_CONTROL
        [] n = "LDO_CONTROL" -> LDO_CONTROL
        [] n = "COMMON_MODE_CONTROL" -> COMMON_MODE_CONTROL
        [] n = "SPEAKER_AMPLIFIER_CONTROL_1" -> SPEAKER_AMPLIFIER_CONTROL_1
        [] n = "SPEAKER_VOLUME_CONTROL_1" -> SPEAKER_VOLUME_CONTROL_1
        [] n = "SPEAKER_AMPLIFIER_VOLUME_CONTROL_2" -> SPEAKER_AMPLIFIER_VOLUME_CONTROL_2 ]

\* the descriptors a caller can name
Registers == { RegTable[n] : n \in RegNames }

\* variant: the 15 ms delay comes one action late, after the first divider
CONFIG_DELAY_AFTER_DIVIDER ==
  << <<SOFTWARE_RESET, 1>>,
     <<PyInt(DELAY_MS), 2>>,
     <<LDO_CONTROL, 0>>,
     <<CLOCK_SETTING_1, 7>>,
     <<CLOCK_SETTING_2, 145>>,
     <<CLOCK_SETTING_3, 40>>,
     <<CLOCK_SETTING_4, 0>>,
     <<CLOCK_SETTING_5, 0>>,
     <<CLOCK_SETTING_6, 129>>,
     <<PyInt(DELAY_MS), 15>>,
     <<CLOCK_SETTING_7, 130>>,
     <<DAC_OSR_SETTING_1, 2>>,
     <<DAC_OSR_SETTING_2, 128>>,
     <<AUDIO_INTERFACE_SETTING_1, 0>>,
     <<DAC_INSTRUCTION_SET, 2>>,
     <<REF_POR_LDO_BGAP_CONTROL, 16>>,
     <<COMMON_MODE_CONTROL, 0>>,
     <<SPEAKER_VOLUME_CONTROL_1, 0>>,
     <<SPEAKER_AMPLIFIER_VOLUME_CONTROL_2, 0>>,
     <<SPEAKER_AMPLIFIER_CONTROL_1, 2>>,
     <<DAC_CHANNEL_SETUP_1, 145>>,
     <<DAC_CHANNEL_DIGITAL_VOLUME_CONTROL, 0>>,
     <<DAC_CHANNEL_SETUP_2, 4>> >>

\* Default script to configure playback mode, 16 bit I2S input, speaker output.
CONFIG_I2S_IN_SPEAKER_OUT ==
  << <<SOFTWARE_RESET, 1>>,
     <<PyInt(DELAY_MS), 2>>,
     <<LDO_CONTROL, 0>>,
     <<CLOCK_SETTING_1, 7>>,
     <<CLOCK_SETTING_2, 145>>,
     <<CLOCK_SETTING_3, 40>>,
     <<CLOCK_SETTING_4, 0>>,
     <<CLOCK_SETTING_5, 0>>,
     <<PyInt(DELAY_MS), 15>>,
     <<CLOCK_SETTING_6, 129>>,
     <<CLOCK_SETTING_7, 130>>,
     <<DAC_OSR_SETTING_1, 2>>,
     <<DAC_OSR_SETTING_2, 128>>,
     <<AUDIO_INTERFACE_SETTING_1, 0>>,
     <<DAC_INSTRUCTION_SET, 2>>,
     <<REF_POR_LDO_BGAP_CONTROL, 16>>,
     <<COMMON_MODE_CONTROL, 0>>,
     <<SPEAKER_VOLUME_CONTROL_1, 0>>,
     <<SPEAKER_AMPLIFIER_VOLUME_CONTROL_2, 0>>,
     <<SPEAKER_AMPLIFIER_CONTROL_1, 2>>,
     <<DAC_CHANNEL_SETUP_1, 145>>,
     <<DAC_CHANNEL_DIGITAL_VOLUME_CONTROL, 0>>,
     <<DAC_CHANNEL_SETUP_2, 4>> >>

\* variant: the byte is masked to 7 bits
pack_7bit(v) == v % 128

\* ustruct.pack('B', v): one unsigned byte; MicroPython keeps the low 8 bits
pack_B(v) == v % 256

\* variant: the level is shifted by 3 bits
shl3(v) == v * 8

\* Python's volume << 4 on an unbounded int
shl4(v) == v * 16

\* ------------------------------------------------------------ the device
\* The registers the device implements, per (page, address).
Cells == { <<r.page, r.num>> : r \in Registers }

\* writeto_mem(address, memaddr, byte) acknowledged by the device: address 0 is
\* the page-select register on every page, any other address is the register
\* of the active page.
DevWrite(page, regs, memaddr, byte) ==
  IF memaddr = PAGE_SELECT
    THEN [page |-> byte, regs |-> regs]
    ELSE [page |-> page,
          regs |-> IF <<page, memaddr>> \in DOMAIN regs
                     THEN [regs EXCEPT ![<<page, memaddr>>] = byte]
                     ELSE regs]

\* readfrom_mem(address, memaddr, 1) acknowledged by the device
DevRead(page, regs, memaddr) ==
  IF memaddr = PAGE_SELECT
    THEN page
    ELSE IF <<page, memaddr>> \in DOMAIN regs THEN regs[<<page, memaddr>>] ELSE 0

\* ------------------------------------------------------------- the inputs
\* byte values the application writes
ByteSamples == {0, 1, 255}

\* every value of an unsigned byte
Bytes == 0..255

\* volume levels handed to set_speaker_amplifier_volume
Levels == (0 - LevelMargin)..(15 + LevelMargin)

\* the actions caller-supplied scripts are built from
ScriptActions ==
  { <<SOFTWARE_RESET, 1>>, <<REF_POR_LDO_BGAP_CONTROL, 16>>,
    <<SPEAKER_VOLUME_CONTROL_1, 255>>,
    <<PyInt(DELAY_MS), 2>>, <<PyInt(DELAY_MS), 15>> }

RECURSIVE SeqsUpTo(_)
SeqsUpTo(n) ==
  IF n = 0 THEN { <<>> }
  ELSE LET shorter == SeqsUpTo(n - 1)
       IN  shorter \cup { Append(s, a) : s \in shorter, a \in ScriptActions }

\* the scripts handed to config(): the default one and every short one
Scripts == { CONFIG_I2S_IN_SPEAKER_OUT } \cup SeqsUpTo(MaxScriptLen)

\* ------------------------------------------------------------------ state
VARIABLES
  dev_page,   \* the device's active register page
  dev_regs,   \* the device's registers, per (page, address)
  pc,         \* where the driver is: "idle", "config", "set_page", "xfer", "sleep"
  call,       \* the driver call in progress, or the last one
  script,     \* config's config_script
  idx,        \* config's position in config_script (1-based)
  acc,        \* arguments of the _set_register / read_register frame
  trace,      \* bus transactions and sleeps of the call, in order
  outcome,    \* "none" while running, then "ok" or "error"
  ret,        \* value returned by read_register
  err,        \* exception that reached the caller
  pre,        \* the device when the call began
  prev,       \* the call before this one, kept when it was a _set_register that returned
  ncalls      \* calls made so far

vars == <<dev_page, dev_regs, pc, call, script, idx, acc, trace, outcome, ret,
          err, pre, prev, ncalls>>

\* what only entering a call changes
session == <<call, pre, prev, ncalls>>

NoCall == [op |-> "none"]
NoAccess == [kind |-> "none"]
NoError == [type |-> "none"]
\* the transport error writeto_mem / readfrom_mem raise
OSError == [type |-> "OSError"]

Init ==
  /\ dev_page = PAGE0
  /\ dev_regs = [c \in Cells |-> 0]
  /\ pc = "idle"
  /\ call = NoCall
  /\ script = <<>>
  /\ idx = 0
  /\ acc = NoAccess
  /\ trace = <<>>
  /\ outcome = "none"
  /\ ret = 0
  /\ err = NoError
  /\ pre = [page |-> PAGE0, regs |-> [c \in Cells |-> 0]]
  /\ prev = NoCall
  /\ ncalls = 0

\* The driver constructed on a device it did not reset: __init__ makes no bus
\* transaction, so the device is on either page and its registers hold what
\* was written before (here: one byte sample in every register).
InitAnyDevice ==
  /\ dev_page \in {PAGE0, PAGE1}
  /\ dev_regs \in { [c \in Cells |-> b] : b \in ByteSamples }
  /\ pc = "idle"
  /\ call = NoCall
  /\ script = <<>>
  /\ idx = 0
  /\ acc = NoAccess
  /\ trace = <<>>
  /\ outcome = "none"
  /\ ret = 0
  /\ err = NoError
  /\ pre = [page |-> dev_page, regs |-> dev_regs]
  /\ prev = NoCall
  /\ ncalls = 0

\* a trace entry: one bus transaction (or one sleep) made for action act
Event(op, memaddr, data, ok) ==
  [op |-> op, addr |-> memaddr, data |-> data, ok |-> ok, act |-> idx]

\* the application enters a driver method
Enter(c) ==
  /\ pc = "idle"
  /\ ncalls < MaxCalls
  /\ ncalls' = ncalls + 1
  /\ call' = c
  /\ prev' = IF call.op = "set_register" /\ outcome = "ok" THEN call ELSE NoCall
  /\ pre' = [page |-> dev_page, regs |-> dev_regs]
  /\ trace' = <<>>
  /\ outcome' = "none"
  /\ ret' = 0
  /\ err' = NoError
  /\ UNCHANGED <<dev_page, dev_regs>>

\* variant: config catches the exception and goes on with the next action
Raise_continue(e) ==
  /\ err' = e
  /\ IF call.op = "config"
       THEN /\ pc' = "config"
            /\ idx' = idx + 1
            /\ outcome' = outcome
       ELSE /\ pc' = "idle"
            /\ idx' = idx
            /\ outcome' = "error"
  /\ UNCHANGED <<script, acc, ret, session>>

\* variant: the exception is caught and dropped, the call returns normally
Raise_swallowed(e) ==
  /\ pc' = "idle"
  /\ outcome' = "ok"
  /\ err' = NoError
  /\ UNCHANGED <<script, idx, acc, ret, session>>

\* an exception leaves every frame: nothing in the driver catches it
Raise(e) ==
  /\ pc' = "idle"
  /\ outcome' = "error"
  /\ err' = e
  /\ UNCHANGED <<script, idx, acc, ret, session>>

\* variant: the loop steps over the action after the one just run
AccessReturn_skip(r) ==
  /\ ret' = r
  /\ IF call.op = "config"
       THEN /\ pc' = "config"
            /\ idx' = idx + 2
            /\ outcome' = outcome
       ELSE /\ pc' = "idle"
            /\ idx' = idx
            /\ outcome' = "ok"
  /\ UNCHANGED <<script, acc, err, session>>

\* _set_register / read_register returns: to config's loop, or to the caller
AccessReturn(r) ==
  /\ ret' = r
  /\ IF call.op = "config"
       THEN /\ pc' = "config"
            /\ idx' = idx + 1
            /\ outcome' = outcome
       ELSE /\ pc' = "idle"
            /\ idx' = idx
            /\ outcome' = "ok"
  /\ UNCHANGED <<script, acc, err, session>>

\* _set_register(reg, value) called by the application
set_register(reg, value) ==
  /\ Enter([op |-> "set_register", reg |-> reg, value |-> value])
  /\ acc' = [kind |-> "w", reg |-> reg, value |-> value]
  /\ idx' = 0
  /\ pc' = "set_page"
  /\ UNCHANGED script

\* read_register(reg) called by the application
read_register(reg) ==
  /\ Enter([op |-> "read_register", reg |-> reg])
  /\ acc' = [kind |-> "r", reg |-> reg]
  /\ idx' = 0
  /\ pc' = "set_page"
  /\ UNCHANGED script

\* set_speaker_amplifier_volume(volume)
set_speaker_amplifier_volume(volume) ==
  /\ Enter([op |-> "set_speaker_amplifier_volume", volume |-> volume])
  /\ acc' = [kind |-> "w", reg |-> SPEAKER_AMPLIFIER_VOLUME_CONTROL_2,
             value |-> shl4(volume)]
  /\ idx' = 0
  /\ pc' = "set_page"
  /\ UNCHANGED script

\* variant: the page is selected only when the device is on another page
set_page_if_changed ==
  /\ pc = "set_page"
  /\ IF dev_page = acc.reg.page
       THEN /\ pc' = "xfer"
            /\ UNCHANGED <<dev_page, dev_regs, script, idx, acc, trace, outcome,
                           ret, err, session>>
       ELSE \E ok \in BOOLEAN :
              /\ trace' = Append(trace, Event("write", PAGE_SELECT,
                                              pack_B(acc.reg.page), ok))
              /\ IF ok
                   THEN /\ dev_page' = pack_B(acc.reg.page)
                        /\ pc' = "xfer"
                        /\ UNCHANGED <<dev_regs, script, idx, acc, outcome, ret,
                                       err, session>>
                   ELSE /\ Raise(OSError)
                        /\ UNCHANGED <<dev_page, dev_regs>>

\* variant: the driver remembers the page of its last register write and
\* skips the page select when the next access is on that page
set_page_cached ==
  /\ pc = "set_page"
  /\ IF prev.op = "set_register" /\ prev.reg.page = acc.reg.page
       THEN /\ pc' = "xfer"
            /\ UNCHANGED <<dev_page, dev_regs, script, idx, acc, trace, outcome,
                           ret, err, session>>
       ELSE \E ok \in BOOLEAN :
              /\ trace' = Append(trace, Event("write", PAGE_SELECT,
                                              pack_B(acc.reg.page), ok))
              /\ IF ok
                   THEN /\ dev_page' = pack_B(acc.reg.page)
                        /\ pc' = "xfer"
                        /\ UNCHANGED <<dev_regs, script, idx, acc, outcome, ret,
                                       err, session>>
                   ELSE /\ Raise(OSError)
                        /\ UNCHANGED <<dev_page, dev_regs>>

\* _set_page(reg.page): the page-select transaction
set_page ==
  /\ pc = "set_page"
  /\ LET wreg == pack_B(acc.reg.page)
     IN \E ok \in BOOLEAN :
          /\ trace' = Append(trace, Event("write", PAGE_SELECT, wreg, ok))
          /\ IF ok
               THEN LET d == DevWrite(dev_page, dev_regs, PAGE_SELECT, wreg)
                    IN  /\ dev_page' = d.page
                        /\ dev_regs' = d.regs
                        /\ pc' = "xfer"
                        /\ UNCHANGED <<script, idx, acc, outcome, ret, err,
                                       session>>
               ELSE /\ Raise(OSError)
                    /\ UNCHANGED <<dev_page, dev_regs>>

\* the rest of _set_register: the value transaction
write_value ==
  /\ pc = "xfer"
  /\ acc.kind = "w"
  /\ LET wreg == pack_B(acc.value)
     IN \E ok \in BOOLEAN :
          /\ trace' = Append(trace, Event("write", acc.reg.num, wreg, ok))
          /\ IF ok
               THEN LET d == DevWrite(dev_page, dev_regs, acc.reg.num, wreg)
                    IN  /\ dev_page' = d.page
                        /\ dev_regs' = d.regs
                        /\ AccessReturn(0)
               ELSE /\ Raise(OSError)
                    /\ UNCHANGED <<dev_page, dev_regs>>

\* the rest of read_register: the one-byte read, return ret[0]
read_value ==
  /\ pc = "xfer"
  /\ acc.kind = "r"
  /\ \E ok \in BOOLEAN :
       LET byte == IF ok THEN DevRead(dev_page, dev_regs, acc.reg.num) ELSE 0
       IN  /\ trace' = Append(trace, Event("read", acc.reg.num, byte, ok))
           /\ IF ok THEN AccessReturn(byte) ELSE Raise(OSError)
           /\ UNCHANGED <<dev_page, dev_regs>>

\* config(config_script) called by the application
config(config_script) ==
  /\ Enter([op |-> "config"])
  /\ script' = config_script
  /\ idx' = 1
  /\ acc' = NoAccess
  /\ pc' = "config"

\* for action in config_script: the script is exhausted, config returns
config_return ==
  /\ pc = "config"
  /\ idx > Len(script)
  /\ pc' = "idle"
  /\ outcome' = "ok"
  /\ UNCHANGED <<dev_page, dev_regs, script, idx, acc, trace, ret, err, session>>

\* variant: the delay is taken in seconds (time.sleep) instead of milliseconds
config_delay_seconds ==
  /\ pc = "config"
  /\ idx <= Len(script)
  /\ script[idx][1] = PyInt(DELAY_MS)
  /\ trace' = Append(trace, Event("sleep", -1, script[idx][2] * 1000, TRUE))
  /\ pc' = "sleep"
  /\ UNCHANGED <<dev_page, dev_regs, script, idx, acc, outcome, ret, err,
                 session>>

\* variant: a delay action is stepped over without sleeping
config_delay_skipped ==
  /\ pc = "config"
  /\ idx <= Len(script)
  /\ script[idx][1] = PyInt(DELAY_MS)
  /\ idx' = idx + 1
  /\ UNCHANGED <<dev_page, dev_regs, pc, script, acc, trace, outcome, ret, err,
                 session>>

\* action[0] == TAS2505.DELAY_MS: time.sleep_ms(action[1]) is entered
config_delay ==
  /\ pc = "config"
  /\ idx <= Len(script)
  /\ script[idx][1] = PyInt(DELAY_MS)
  /\ trace' = Append(trace, Event("sleep", -1, script[idx][2], TRUE))
  /\ pc' = "sleep"
  /\ UNCHANGED <<dev_page, dev_regs, script, idx, acc, outcome, ret, err,
                 session>>

\* variant: after the sleep the loop takes the same action again
sleep_return_rerun ==
  /\ pc = "sleep"
  /\ pc' = "config"
  /\ idx' = idx
  /\ UNCHANGED <<dev_page, dev_regs, script, acc, trace, outcome, ret, err,
                 session>>

\* time.sleep_ms returns; the loop moves to the next action
sleep_return ==
  /\ pc = "sleep"
  /\ pc' = "config"
  /\ idx' = idx + 1
  /\ UNCHANGED <<dev_page, dev_regs, script, acc, trace, outcome, ret, err,
                 session>>

\* variant: the write branch is taken without the sentinel test
config_write_unguarded ==
  /\ pc = "config"
  /\ idx <= Len(script)
  /\ acc' = [kind |-> "w", reg |-> script[idx][1], value |-> script[idx][2]]
  /\ pc' = "set_page"
  /\ UNCHANGED <<dev_page, dev_regs, script, idx, trace, outcome, ret, err,
                 session>>

\* else: self._set_register(action[0], action[1]) is entered
config_write ==
  /\ pc = "config"
  /\ idx <= Len(script)
  /\ script[idx][1] # PyInt(DELAY_MS)
  /\ acc' = [kind |-> "w", reg |-> script[idx][1], value |-> script[idx][2]]
  /\ pc' = "set_page"
  /\ UNCHANGED <<dev_page, dev_regs, script, idx, trace, outcome, ret, err,
                 session>>

\* the steps config takes once it has been called
ConfigStep ==
  \/ config_return
  \/ config_delay
  \/ sleep_return
  \/ config_write
  \/ set_page
  \/ write_value

\* the positions of the trace that are page selections of another bus actor
ExternalAt(t) == { k \in 1..Len(t) : t[k].op = "external" }

\* Another actor on the shared bus selects page p, between two transactions of
\* the driver or while the driver is idle; the device acknowledges it.
external_select_page(p) ==
  /\ Cardinality(ExternalAt(trace)) < MaxExternal
  /\ dev_page' = DevWrite(dev_page, dev_regs, PAGE_SELECT, p).page
  /\ trace' = Append(trace, Event("external", PAGE_SELECT, p, TRUE))
  /\ UNCHANGED <<dev_regs, pc, script, idx, acc, outcome, ret, err, session>>

\* the register accessor driven by the application
Next ==
  \/ pc = "idle" /\ \E reg \in Registers, value \in ByteSamples :
                      set_register(reg, value)
  \/ pc = "idle" /\ \E reg \in Registers : read_register(reg)
  \/ set_page
  \/ write_value
  \/ read_value

Spec == Init /\ [][Next]_vars

\* the registers accessed on the shared bus: the same address on both pages,
\* and an address only page 1 has
SharedRegisters ==
  {SOFTWARE_RESET, REF_POR_LDO_BGAP_CONTROL, SPEAKER_VOLUME_CONTROL_1}

\* the register accessor on a bus shared with another actor
NextShared ==
  \/ pc = "idle" /\ \E reg \in SharedRegisters, value \in {1, 255} :
                      set_register(reg, value)
  \/ pc = "idle" /\ \E reg \in SharedRegisters : read_register(reg)
  \/ set_page
  \/ write_value
  \/ read_value
  \/ \E p \in {PAGE0, PAGE1} : external_select_page(p)

SpecShared == Init /\ [][NextShared]_vars

\* the volume setter driven by the application, with reads of its register
NextVolume ==
  \/ pc = "idle" /\ \E volume \in Levels : set_speaker_amplifier_volume(volume)
  \/ read_register(SPEAKER_AMPLIFIER_VOLUME_CONTROL_2)
  \/ set_page
  \/ write_value
  \/ read_value

SpecVolume == Init /\ [][NextVolume]_vars

\* the application writes any byte to any register of the table and, when the
\* write returned, reads that register back
NextRoundTrip ==
  \/ /\ pc = "idle" /\ call = NoCall
     /\ \E reg \in Registers, value \in Bytes : set_register(reg, value)
  \/ /\ pc = "idle" /\ call.op = "set_register" /\ outcome = "ok"
     /\ read_register(call.reg)
  \/ set_page
  \/ write_value
  \/ read_value

SpecRoundTrip == InitAnyDevice /\ [][NextRoundTrip]_vars

\* the script engine driven by the application
NextConfig ==
  \/ pc = "idle" /\ \E config_script \in Scripts : config(config_script)
  \/ config_return
  \/ config_delay
  \/ sleep_return
  \/ config_write
  \/ set_page
  \/ write_value

SpecConfig == Init /\ [][NextConfig]_vars

\* config on a bus and a timer that always answer: every transaction and every
\* sleep in progress eventually returns or fails
SpecConfigFair == SpecConfig /\ WF_vars(ConfigStep)

\* ------------------------------------------------------------- properties
\* the call is a direct register access
IsAccess == call.op \in {"set_register", "read_register"}

\* the call has returned or raised
Finished == pc = "idle" /\ outcome # "none"

\* the page-select transaction of descriptor reg, made for action act
PageSelectEvent(reg, ok, act) ==
  [op |-> "write", addr |-> 0, data |-> reg.page, ok |-> ok, act |-> act]

\* the value transaction writing byte to descriptor reg, made for action act
ValueWriteEvent(reg, byte, ok, act) ==
  [op |-> "write", addr |-> reg.num, data |-> byte, ok |-> ok, act |-> act]

\* C1: every _set_register / read_register call makes its bus transactions in
\* the order page-select write of reg.page to address 0x00, then one register
\* transaction at reg.num (a write of value, or a read); a call that returns
\* has made exactly these two, whatever page the device was on before, and no
\* call makes more than two or starts with anything but the page select.
C1_TwoTransactions ==
  IsAccess =>
    /\ Len(trace) <= 2
    /\ Len(trace) >= 1 =>
         /\ trace[1].op = "write"
         /\ trace[1].addr = 0
         /\ trace[1].data = call.reg.page
    /\ Len(trace) = 2 =>
         /\ trace[1].ok
         /\ trace[2].addr = call.reg.num
         /\ call.op = "set_register" =>
              trace[2].op = "write" /\ trace[2].data = call.value
         /\ call.op = "read_register" => trace[2].op = "read"
    /\ (Finished /\ outcome = "ok") =>
         Len(trace) = 2 /\ trace[1].ok /\ trace[2].ok
    /\ pc = "xfer" => Len(trace) = 1 /\ trace[1].ok

\* C1 witness: a register write returned although the access before it had
\* already left the device on the same page (page 1), and made both transactions
C1_Witness ==
  /\ call.op = "set_register"
  /\ Finished /\ outcome = "ok"
  /\ ncalls = 2
  /\ call.reg.page = PAGE1
  /\ pre.page = PAGE1
  /\ Len(trace) = 2


\* C6: in a register write, a failed page-select transaction ends the call
\* with the error, the value transaction is never attempted and the device is
\* as it was; a failed value transaction after a successful page select leaves
\* the device on the descriptor's page with every register, the target
\* included, at its previous value, and the error reaches the caller; no
\* transaction is attempted twice.
C6_WriteFailure ==
  call.op = "set_register" =>
    /\ Len(trace) <= 2
    /\ (Len(trace) >= 1 /\ ~trace[1].ok) =>
         /\ Len(trace) = 1
         /\ Finished /\ outcome = "error" /\ err.type = "OSError"
         /\ dev_page = pre.page
         /\ dev_regs = pre.regs
    /\ (Len(trace) = 2 /\ ~trace[2].ok) =>
         /\ trace[1].ok /\ trace[1].addr = 0
         /\ trace[2].addr = call.reg.num
         /\ Finished /\ outcome = "error" /\ err.type = "OSError"
         /\ dev_page = call.reg.page
         /\ dev_regs = pre.regs
    /\ (Finished /\ outcome = "error") => ~trace[Len(trace)].ok

\* C6 witness: the page select moved the device from page 0 to page 1, then
\* the value transaction of a write of 255 failed and the register kept 0
C6_Witness ==
  /\ call.op = "set_register"
  /\ Finished /\ outcome = "error"
  /\ Len(trace) = 2
  /\ pre.page = PAGE0 /\ call.reg.page = PAGE1 /\ dev_page = PAGE1
  /\ call.value = 255
  /\ dev_regs[<<call.reg.page, call.reg.num>>] = 0

\* C7: a read_register(d) that returns, made right after a _set_register(d, v)
\* that returned, returns v, for every descriptor of the table and every byte
\* v, whatever page and register contents earlier accesses left in the device
C7_RoundTrip ==
  ( /\ call.op = "read_register"
    /\ Finished /\ outcome = "ok"
    /\ prev.op = "set_register"
    /\ prev.reg = call.reg ) => ret = prev.value

\* C7 witness: with the device left on page 0 and every register holding 255,
\* 129 written to page-1 register 1 (an address page 0 also has) was read back
C7_Witness ==
  /\ call.op = "read_register"
  /\ Finished /\ outcome = "ok"
  /\ prev.op = "set_register"
  /\ prev.reg = call.reg
  /\ call.reg = REF_POR_LDO_BGAP_CONTROL
  /\ prev.value = 129
  /\ ret = 129
  /\ dev_regs[<<PAGE0, 1>>] = 255

\* distinct names of the table have distinct (page, address) pairs
TableUnique ==
  \A n1 \in RegNames, n2 \in RegNames :
    n1 # n2 => <<RegTable[n1].page, RegTable[n1].num>> #
               <<RegTable[n2].page, RegTable[n2].num>>

\* C8: no two distinct named registers of the table share (page, address),
\* so the device holds one register cell per named register
C8_UniqueRegisters ==
  /\ TableUnique
  /\ Cardinality(DOMAIN dev_regs) = Cardinality(RegNames)

\* C8 witness: the two registers with address 1 (page 0 and page 1) have both
\* been written and hold different values
C8_Witness ==
  /\ Cardinality(Cells) = Cardinality(RegNames)
  /\ dev_regs[<<PAGE0, 1>>] = 255
  /\ dev_regs[<<PAGE1, 1>>] = 1

\* C10: set_speaker_amplifier_volume(L) with 0 <= L <= 15 that returns has
\* made exactly two transactions, a page-select write of 1 and a write of
\* L * 16 to register 48, and has changed no register but (page 1, 48); no
\* such call makes more than two transactions
C10_VolumeEncoding ==
  (call.op = "set_speaker_amplifier_volume" /\ call.volume \in 0..15) =>
    /\ Len(trace) <= 2
    /\ (Finished /\ outcome = "ok") =>
         /\ trace = << [op |-> "write", addr |-> 0, data |-> 1, ok |-> TRUE,
                        act |-> 0],
                       [op |-> "write", addr |-> 48, data |-> call.volume * 16,
                        ok |-> TRUE, act |-> 0] >>
         /\ dev_regs = [pre.regs EXCEPT ![<<1, 48>>] = call.volume * 16]

\* C10 witness: level 15 was written as 240 over an earlier level
C10_Witness ==
  /\ call.op = "set_speaker_amplifier_volume"
  /\ call.volume = 15
  /\ Finished /\ outcome = "ok"
  /\ pre.regs[<<1, 48>>] = 16
  /\ dev_regs[<<1, 48>>] = 240


\* the indices of the register-write actions of script s
WriteIdx(s) == { i \in 1..Len(s) : s[i][1] # PyInt(DELAY_MS) }

\* the indices of the delay actions of script s
DelayIdx(s) == { i \in 1..Len(s) : s[i][1] = PyInt(DELAY_MS) }

\* the bus transactions a script asks for from action i on: per write action
\* the page select of its descriptor, then the value write
RECURSIVE ExpectedBus(_, _)
ExpectedBus(s, i) ==
  IF i > Len(s) THEN <<>>
  ELSE IF i \in DelayIdx(s) THEN ExpectedBus(s, i + 1)
  ELSE << PageSelectEvent(s[i][1], TRUE, i),
          ValueWriteEvent(s[i][1], s[i][2], TRUE, i) >> \o ExpectedBus(s, i + 1)

IsBus(e) == e.op # "sleep"

IsSleep(e) == e.op = "sleep"

\* the bus transactions of a trace, the sleeps of a trace
BusOnly(t) == SelectSeq(t, IsBus)

SleepsOnly(t) == SelectSeq(t, IsSleep)

\* every transaction of the trace was acknowledged
AllAcked(t) == \A k \in 1..Len(t) : t[k].ok

\* the positions of the trace made for action i
EventsOf(t, i) == { k \in 1..Len(t) : t[k].act = i }

\* C2: a config(S) that ends without a bus failure has returned, and its bus
\* trace is the concatenation, in S's order, of [page-select write of
\* descriptor.page, value write to descriptor.num] per register-write action,
\* with nothing for a delay action: 2 x (number of write actions) transactions
C2_ConfigTrace ==
  (call.op = "config" /\ Finished /\ AllAcked(trace)) =>
    /\ outcome = "ok"
    /\ BusOnly(trace) = ExpectedBus(script, 1)
    /\ Len(BusOnly(trace)) = 2 * Cardinality(WriteIdx(script))
    /\ \A k \in 1..Len(trace) :
         IsBus(trace[k]) => trace[k].act \in WriteIdx(script)

\* C2 witness: a script of a delay and a write to a page-1 register returned
\* after one sleep and the two transactions of the write
C2_Witness ==
  /\ call.op = "config"
  /\ Finished /\ outcome = "ok"
  /\ script = << <<PyInt(DELAY_MS), 2>>, <<SPEAKER_VOLUME_CONTROL_1, 255>> >>
  /\ Len(trace) = 3
  /\ Len(BusOnly(trace)) = 2

\* what C3 says of every state of a config call: the trace is ordered by
\* action, holds nothing of an action after the current one, every action
\* before the current one is complete (a write action with its two
\* acknowledged transactions, a delay action with its one sleep of its own
\* duration), and a sleep is recorded for delay actions only
C3_OrderInv ==
  call.op = "config" =>
    /\ \A k \in 1..Len(trace) :
         /\ trace[k].act \in 1..Len(script)
         /\ trace[k].act <= idx
         /\ k > 1 => trace[k - 1].act <= trace[k].act
         /\ IsSleep(trace[k]) <=> trace[k].act \in DelayIdx(script)
         /\ IsSleep(trace[k]) => trace[k].data = script[trace[k].act][2]
    /\ \A i \in DelayIdx(script) :
         Cardinality(EventsOf(trace, i)) =
           IF i < idx \/ (i = idx /\ pc = "sleep") THEN 1 ELSE 0
    /\ \A i \in WriteIdx(script) :
         i < idx => /\ Cardinality(EventsOf(trace, i)) = 2
                    /\ \A k \in EventsOf(trace, i) : trace[k].ok
    /\ pc = "sleep" => idx \in DelayIdx(script)

\* what C3 says of every step of a config call: while a sleep is in progress
\* the only step is its return, which starts nothing; and the loop moves on by
\* one action, and only when the sleep returns or the value write is
\* acknowledged
C3_OrderStep ==
  (call.op = "config" /\ ncalls' = ncalls) =>
    /\ pc = "sleep" =>
         /\ trace' = trace
         /\ pc' = "config"
         /\ idx' = idx + 1
         /\ dev_page' = dev_page /\ dev_regs' = dev_regs
    /\ idx' # idx =>
         /\ idx' = idx + 1
         /\ \/ pc = "sleep"
            \/ /\ pc = "xfer"
               /\ Len(trace') = Len(trace) + 1
               /\ trace'[Len(trace')].ok
               /\ trace'[Len(trace')].act = idx
    /\ trace' # trace =>
         /\ Len(trace') = Len(trace) + 1
         /\ SubSeq(trace', 1, Len(trace)) = trace
         /\ trace'[Len(trace')].act = idx

\* C3: config runs the actions strictly in sequence: nothing of action i+1
\* begins before action i has completed, a delay action being complete when
\* its sleep has returned, and each delay action sleeps once, for its duration
C3_StrictSequence == []C3_OrderInv /\ [][C3_OrderStep]_vars

\* C3 witness: the write of action 2 is about to begin, after the 15 ms sleep
\* of action 1 was entered and has returned
C3_Witness ==
  /\ call.op = "config"
  /\ pc = "set_page"
  /\ idx = 2
  /\ script[1] = <<PyInt(DELAY_MS), 15>>
  /\ Len(trace) = 1
  /\ trace[1].op = "sleep" /\ trace[1].data = 15 /\ trace[1].act = 1

\* the registers after the writes of actions 1..n of script s on regs
RECURSIVE Replay(_, _, _)
Replay(regs, s, n) ==
  IF n = 0 THEN regs
  ELSE LET before == Replay(regs, s, n - 1)
       IN  IF n \in DelayIdx(s) THEN before
           ELSE [before EXCEPT ![<<s[n][1].page, s[n][1].num>>] = s[n][2]]

\* C4: once a bus transaction of config has failed, on action k, config is
\* over with the error at the caller: the failed transaction is the last of
\* the trace and the only failed one, nothing was done for an action after k,
\* it was not retried, and the registers hold what actions 1..k-1 wrote
C4_FailFast ==
  (call.op = "config" /\ ~AllAcked(trace)) =>
    /\ Finished /\ outcome = "error" /\ err.type = "OSError"
    /\ LET n == Len(trace)
           k == trace[n].act
       IN  /\ ~trace[n].ok
           /\ \A j \in 1..(n - 1) : trace[j].ok
           /\ k = idx
           /\ \A j \in 1..n : trace[j].act <= k
           /\ Cardinality(EventsOf(trace, k)) <= 2
           /\ \A i \in EventsOf(trace, k), j \in EventsOf(trace, k) :
                i # j => trace[i].addr # trace[j].addr
           /\ dev_regs = Replay(pre.regs, script, k - 1)

\* C4 witness: action 1 wrote 16 to page-1 register 1, then the page select of
\* action 2 failed; the register still holds 16 and nothing followed
C4_Witness ==
  /\ call.op = "config"
  /\ Finished /\ outcome = "error"
  /\ script = << <<REF_POR_LDO_BGAP_CONTROL, 16>>, <<SOFTWARE_RESET, 1>> >>
  /\ idx = 2
  /\ Len(trace) = 3
  /\ dev_regs[<<PAGE1, 1>>] = 16
  /\ dev_regs[<<PAGE0, 1>>] = 0

\* C5: a bus failure during action k of a script reaches the caller as a
\* ScriptError that names action k (the driver raises the bare OSError instead)
C5_ScriptError ==
  (call.op = "config" /\ Finished /\ outcome = "error") =>
    (err.type = "ScriptError" /\ err.index = idx)

\* C9: config() with the default script, every transaction acknowledged,
\* returns without error, makes no read, makes one value write per write
\* action, each right after its page-select write, and sleeps exactly twice,
\* 2 ms and then 15 ms
C9_DefaultScript ==
  ( /\ call.op = "config"
    /\ script = CONFIG_I2S_IN_SPEAKER_OUT
    /\ Finished /\ AllAcked(trace) ) =>
    LET values == { k \in 1..Len(trace) :
                      trace[k].op = "write" /\ trace[k].addr # 0 }
        sleeps == SleepsOnly(trace)
    IN  /\ outcome = "ok" /\ err = NoError
        /\ \A k \in 1..Len(trace) : trace[k].op # "read"
        /\ Cardinality(values) = Cardinality(WriteIdx(script))
        /\ { trace[k].act : k \in values } = WriteIdx(script)
        /\ \A k \in values :
             /\ k > 1
             /\ trace[k - 1] = PageSelectEvent(script[trace[k].act][1], TRUE,
                                               trace[k].act)
             /\ trace[k] = ValueWriteEvent(script[trace[k].act][1],
                                           script[trace[k].act][2], TRUE,
                                           trace[k].act)
        /\ Len(trace) = 2 * Cardinality(values) + 2
        /\ Len(sleeps) = 2
        /\ sleeps[1].data = 2
        /\ sleeps[2].data = 15

\* C9 witness: the default script ran to its end: 21 value writes, 21 page
\* selects and 2 sleeps
C9_Witness ==
  /\ call.op = "config"
  /\ script = CONFIG_I2S_IN_SPEAKER_OUT
  /\ Finished /\ outcome = "ok"
  /\ Len(trace) = 44
  /\ Len(SleepsOnly(trace)) = 2


\* C11: set_speaker_amplifier_volume validates its level: whatever integer
\* level it is given, the value it hands to the register write is an unsigned
\* byte, so the encoding of a level below 0 or above 15 is never handed on
\* (the driver hands volume << 4 on unchecked)
C11_VolumeValidated ==
  (call.op = "set_speaker_amplifier_volume" /\ acc.kind = "w") =>
    /\ acc.value \in 0..255
    /\ call.volume \in 0..15


\* the positions of the trace that are transactions of the driver
DriverAt(t) == { k \in 1..Len(t) : t[k].op # "external" }

\* no page selection of another actor fell between two transactions of the
\* driver's access
Undisturbed ==
  \A k \in ExternalAt(trace) :
    ~ \E j \in DriverAt(trace), l \in DriverAt(trace) : j < k /\ k < l

\* what a returned access did: a write stored value in (reg.page, reg.num) and
\* changed no other register of any page; a read returned the value of
\* (reg.page, reg.num)
AccessCorrect ==
  LET cell == <<call.reg.page, call.reg.num>>
  IN  /\ call.op = "set_register" =>
           dev_regs = [pre.regs EXCEPT ![cell] = call.value]
      /\ call.op = "read_register" => ret = pre.regs[cell]

\* C12 as stated: whenever another bus actor changes the active page, at any
\* point, a register access that returns is correct
C12_AnyMutation ==
  (IsAccess /\ Finished /\ outcome = "ok") => AccessCorrect

\* C12, amended: a register access that returns is correct whenever no page
\* selection of another actor fell between its page-select transaction and its
\* register transaction; a page change before the access is undone by the
\* page select the access always makes
C12_MutationBetweenAccesses ==
  (IsAccess /\ Finished /\ outcome = "ok" /\ Undisturbed) => AccessCorrect

\* C12 witness: another actor moved the device to page 0 after a write to a
\* page-1 register, and the next write to page-1 register 1 still stored 255
\* there, page-0 register 1 keeping 0
C12_Witness ==
  /\ call.op = "set_register"
  /\ Finished /\ outcome = "ok"
  /\ prev.op = "set_register" /\ prev.reg.page = PAGE1
  /\ pre.page = PAGE0
  /\ call.reg = REF_POR_LDO_BGAP_CONTROL
  /\ call.value = 255
  /\ Undisturbed
  /\ dev_regs[<<PAGE1, 1>>] = 255
  /\ dev_regs[<<PAGE0, 1>>] = 0


\* the PLL configuration registers, and the dividers that depend on the PLL
PLLRegisters ==
  {CLOCK_SETTING_1, CLOCK_SETTING_2, CLOCK_SETTING_3, CLOCK_SETTING_4,
   CLOCK_SETTING_5}

DividerRegisters ==
  {CLOCK_SETTING_6, CLOCK_SETTING_7, DAC_OSR_SETTING_1, DAC_OSR_SETTING_2}

\* the descriptor the bus transaction at position k of the trace was made for
RegAt(k) == script[trace[k].act][1]

\* a sleep of ms milliseconds was started before position k of the trace and
\* has returned
SleptBefore(k, ms) ==
  \E j \in 1..(k - 1) :
    /\ IsSleep(trace[j])
    /\ trace[j].data = ms
    /\ ~(pc = "sleep" /\ idx = trace[j].act)

\* C13: while and after config() runs the default script, the first bus
\* activity is the software-reset write, every transaction for any other
\* register comes after the 2 ms sleep has returned, the value writes of
\* CLOCK_SETTING_1..5 are all acknowledged before the 15 ms sleep starts, and
\* every transaction for CLOCK_SETTING_6, CLOCK_SETTING_7, DAC_OSR_SETTING_1
\* and DAC_OSR_SETTING_2 comes after the 15 ms sleep has returned
C13_DelayPositions ==
  (call.op = "config" /\ script = CONFIG_I2S_IN_SPEAKER_OUT) =>
    LET bus == { k \in 1..Len(trace) : IsBus(trace[k]) }
        sleeps == { k \in 1..Len(trace) : IsSleep(trace[k]) }
    IN  /\ trace # <<>> =>
             trace[1] = PageSelectEvent(SOFTWARE_RESET, trace[1].ok, 1)
        /\ \A k \in bus :
             /\ (trace[k].addr # 0 /\ \A j \in 1..(k - 1) : trace[j].addr = 0)
                  => trace[k] = ValueWriteEvent(SOFTWARE_RESET, 1,
                                                trace[k].ok, 1)
             /\ RegAt(k) # SOFTWARE_RESET => SleptBefore(k, 2)
             /\ RegAt(k) \in DividerRegisters => SleptBefore(k, 15)
             /\ RegAt(k) \in PLLRegisters =>
                  ~ \E j \in sleeps : j < k /\ trace[j].data = 15
        /\ \A j \in sleeps :
             /\ trace[j].data = 2 =>
                  /\ j = 3
                  /\ trace[2] = ValueWriteEvent(SOFTWARE_RESET, 1, TRUE, 1)
             /\ trace[j].data = 15 =>
                  \A r \in PLLRegisters :
                    \E k \in bus :
                      /\ k < j
                      /\ RegAt(k) = r
                      /\ trace[k] = ValueWriteEvent(r, trace[k].data, TRUE,
                                                    trace[k].act)

\* C13 witness: the default script got as far as the acknowledged value write
\* of CLOCK_SETTING_6, with both sleeps in the trace before it
C13_Witness ==
  /\ call.op = "config"
  /\ script = CONFIG_I2S_IN_SPEAKER_OUT
  /\ \E k \in 1..Len(trace) :
       /\ trace[k] = ValueWriteEvent(CLOCK_SETTING_6, 129, TRUE, 10)
       /\ SleptBefore(k, 2)
       /\ SleptBefore(k, 15)


\* no descriptor of the table has the page-select address as its address
NoPageSelectDescriptor == \A r \in Registers : r.num # PAGE_SELECT

\* C14: _set_register(d, v) changes nothing of the device but the active page,
\* which becomes d.page or stays, and register (d.page, d.num), which becomes
\* v when the call returns; every other register of every page keeps the value
\* it had when the call began, at every step of the call; no descriptor of the
\* table has address 0x00, so the value write leaves the active page at d.page
C14_WriteFrame ==
  call.op = "set_register" =>
    LET cell == <<call.reg.page, call.reg.num>>
    IN  /\ NoPageSelectDescriptor
        /\ call.reg.num # PAGE_SELECT
        /\ dev_page \in {pre.page, call.reg.page}
        /\ \A c \in Cells \ {cell} : dev_regs[c] = pre.regs[c]
        /\ dev_regs[cell] \in {pre.regs[cell], pack_B(call.value)}
        /\ pc \in {"set_page", "xfer"} => dev_regs = pre.regs
        /\ pc = "xfer" => dev_page = call.reg.page
        /\ (Finished /\ outcome = "ok") =>
             /\ dev_page = call.reg.page
             /\ dev_regs = [pre.regs EXCEPT ![cell] = pack_B(call.value)]

\* C14 witness: on a device on page 0 with every register holding 255, a write
\* of 0 to page-1 register 10 returned; the device is on page 1, that register
\* holds 0 and page-0 register 1 still holds 255
C14_Witness ==
  /\ call.op = "set_register"
  /\ Finished /\ outcome = "ok"
  /\ call.reg = COMMON_MODE_CONTROL
  /\ call.value = 0
  /\ pre.page = PAGE0
  /\ dev_page = PAGE1
  /\ dev_regs[<<PAGE1, call.reg.num>>] = 0
  /\ dev_regs[<<PAGE0, 1>>] = 255


\* no descriptor of the table equals the sentinel
SentinelNotRegister == \A r \in Registers : r # PyInt(DELAY_MS)

\* C15: config takes the sleep branch exactly for the actions whose first
\* element is DELAY_MS = -999 and the write branch exactly for the others; no
\* descriptor of the table equals the sentinel, so every sleep in the trace
\* was made for a delay action, every bus transaction for a register action,
\* and every action the loop has passed reached its own kind of step
C15_SentinelClassification ==
  call.op = "config" =>
    /\ SentinelNotRegister
    /\ DELAY_MS = -999
    /\ pc = "sleep" =>
         /\ script[idx][1] = PyInt(-999)
         /\ script[idx][1] \notin Registers
    /\ pc \in {"set_page", "xfer"} =>
         /\ script[idx][1] # PyInt(-999)
         /\ script[idx][1] \in Registers
         /\ acc.reg = script[idx][1]
    /\ \A k \in 1..Len(trace) :
         /\ IsSleep(trace[k]) <=> trace[k].act \in DelayIdx(script)
         /\ IsBus(trace[k]) <=> trace[k].act \in WriteIdx(script)
    /\ \A i \in 1..Len(script) :
         i < idx => EventsOf(trace, i) # {}

\* C15 witness: a script of a delay and then a register write ran to its end
\* with one sleep for the first action and two bus transactions for the second
C15_Witness ==
  /\ call.op = "config"
  /\ Finished /\ outcome = "ok"
  /\ Len(script) = 2
  /\ script[1][1] = PyInt(DELAY_MS)
  /\ script[2][1] \in Registers
  /\ Len(trace) = 3
  /\ IsSleep(trace[1])
  /\ IsBus(trace[2]) /\ IsBus(trace[3])


\* C16, what config has done at each point of a call: it works on the action
\* at idx, has left no action before idx without its step, has made no step
\* for an action after idx, and has made no action's step twice; when it has
\* finished it either passed the last action or raised the bus failure of the
\* action at idx
C16_NoSkipNoRerun ==
  call.op = "config" =>
    /\ idx \in 1..(Len(script) + 1)
    /\ \A k \in 1..Len(trace) : trace[k].act <= idx
    /\ \A k \in 1..Len(trace), l \in 1..Len(trace) :
         k < l => trace[k].act <= trace[l].act
    /\ \A i \in 1..Len(script) :
         LET n == Cardinality(EventsOf(trace, i))
         IN  /\ i \in DelayIdx(script) => n <= 1
             /\ i \in WriteIdx(script) => n <= 2
             /\ i < idx => n = IF i \in DelayIdx(script) THEN 1 ELSE 2
    /\ (Finished /\ outcome = "ok") =>
         idx = Len(script) + 1 /\ AllAcked(trace)
    /\ (Finished /\ outcome = "error") =>
         /\ idx <= Len(script)
         /\ err = OSError
         /\ trace # <<>>
         /\ ~trace[Len(trace)].ok
         /\ trace[Len(trace)].act = idx

\* C16, one step of a call: the loop index stays or moves on by one
C16_LinearStep ==
  (call.op = "config" /\ call' = call /\ ncalls' = ncalls) =>
    idx' \in {idx, idx + 1}

\* C16: for every script, when every transaction and every sleep eventually
\* returns or fails, a config call that has begun eventually finishes, with
\* every action run to completion or with a bus failure raised to the caller,
\* and on the way it never re-runs or skips an action
C16_ConfigTerminates ==
  /\ []C16_NoSkipNoRerun
  /\ [][C16_LinearStep]_vars
  /\ (call.op = "config" /\ pc # "idle") ~> (call.op = "config" /\ Finished)

\* C16 witness: a script of a register write and then a delay ran to its end,
\* the loop index one past the last action
C16_Witness ==
  /\ call.op = "config"
  /\ Finished /\ outcome = "ok"
  /\ Len(script) = 2
  /\ script[1][1] \in Registers
  /\ script[2][1] = PyInt(DELAY_MS)
  /\ idx = 3
  /\ Len(trace) = 3
  /\ IsSleep(trace[3])

====
